---- MODULE Spec2Model ----
(***************************************************************************)
(* Serial G-code client of the COXIRIS positioning system                  *)
(* (src/src/main/serial.js, class SerialGCodePrinter).                      *)
(*                                                                         *)
(* The client is one JavaScript object driven by an event loop.  Every     *)
(* action below is one job of that loop: a call of a public method, a      *)
(* callback of the serial port (open, error, data, write done, close       *)
(* done), a timer, or the continuation of an await.  Continuations are     *)
(* microtasks: they run before any other job, which MicrotaskPending       *)
(* expresses.                                                              *)
(*                                                                         *)
(* Texts (commands, lines) are strings; Len, SubSeq and \o act on them.    *)
(*                                                                         *)
(* Next to the client stand the control panel that shows the cached        *)
(* position (src/unnamed/part_000), a device that answers every command    *)
(* with one line, and the device's command parser (CommandParser.cpp):     *)
(* its number grammar, processCommand and read.                            *)
(***************************************************************************)
EXTENDS Integers, Sequences, FiniteSets, TLC

VARIABLES
  isConnected,            \* this.isConnected
  port,                   \* this.port: 0 is null, else the id of a SerialPort
  parser,                 \* this.parser: 0 is null, else the port it reads
  currentCommand,         \* this.currentCommand: Null or a command text
  timeoutId,              \* this.timeoutId: 0 is null, else the call whose timer it is
  moveCompleteCallbacks,  \* this.moveCompleteCallbacks: the calls whose resolve is registered
  currentSpeed,           \* this.currentSpeed
  calls,                  \* every sendCommand call made so far, in call order
  portSt,                 \* the state of each SerialPort object created by connect
  listeners,              \* per port, the number of 'data' listeners on its parser
  conn,                   \* per connect call (one per port), its position and result
  disc,                   \* every disconnect call made so far
  delta,                  \* the deltaMove call: its position, awaited call and result
  slotCall,               \* history: the call that set currentCommand, 0 when it is null
  speedSets,              \* history: the number of setSpeed calls made so far
  errored,                \* history: 0, or the number of connect calls made before the
                          \* last 'error' event, while no connect has succeeded since
  panelPosition,          \* control panel: position, the cached position shown
  absoluteMove,           \* control panel: absoluteMove, the fields of the absolute move
  positionIsForm,         \* control panel: position is the object absoluteMove
  panelConnected,         \* control panel: its own isConnected
  answered,               \* device: per port, the number of commands it has answered
  configured,             \* command parser: config() has set the callbacks
  wire,                   \* command parser: the bytes sent to it that it has not read
  cmdBuffer,              \* command parser: cmdBuffer, its first cmdIndex characters
  cmdIndex,               \* command parser: cmdIndex
  out,                    \* command parser: the lines printed to Serial so far
  sent,                   \* history: the lines sent to the command parser
  processed               \* history: the texts processCommand has been called on

vars == <<isConnected, port, parser, currentCommand, timeoutId,
          moveCompleteCallbacks, currentSpeed, calls, portSt, listeners,
          conn, disc, delta, slotCall, speedSets, errored,
          panelPosition, absoluteMove, positionIsForm, panelConnected,
          answered, configured, wire, cmdBuffer, cmdIndex, out, sent, processed>>

\* the state of the control panel (src/unnamed/part_000)
panel == <<panelPosition, absoluteMove, positionIsForm, panelConnected>>

\* the state of the command parser of the device (CommandParser.cpp)
firmware == <<configured, wire, cmdBuffer, cmdIndex, out, sent, processed>>

\* the state of the device at the other end of the port
device == <<answered, firmware>>

----------------------------------------------------------------------------
(* Bounds of the model *)

\* sendCommand calls in one run (direct, from the moves, from the handshake)
MaxCalls == 3
\* connect calls in one run; each creates one SerialPort
MaxConnects == 2
\* disconnect calls in one run
MaxDisconnects == 1
\* sendCommand, connect, disconnect and setSpeed calls in one run, together
MaxOps == 4
\* absoluteMove and deltaMove calls in one run of the builder's specification
MaxMoves == 1
\* the largest coordinate of the panel's position, in tenths of a millimetre
MaxTravel == 200
\* lines sent to the device's command parser in one run
MaxLines == 2

(* Program constants *)

\* sendCommand's default timeout, in ms
DefaultTimeout == 30000

\* the size of cmdBuffer (CommandParser.h)
BUFFER_SIZE == 64

\* the identifier GET_ID reports (CommandParser.h)
DEVICE_ID == "CX25F7TK9P"

\* null of this.currentCommand; no command text equals it
Null == "<null>"

Ports == 1..MaxConnects

----------------------------------------------------------------------------
(* Text helpers *)

StartsWith(s, p) == Len(s) >= Len(p) /\ SubSeq(s, 1, Len(p)) = p

IsSpace(ch) == ch \in {" ", "\t", "\r", "\n"}

RECURSIVE TrimStart(_)
TrimStart(s) ==
  IF Len(s) > 0 /\ IsSpace(SubSeq(s, 1, 1)) THEN TrimStart(SubSeq(s, 2, Len(s))) ELSE s

RECURSIVE TrimEnd(_)
TrimEnd(s) ==
  IF Len(s) > 0 /\ IsSpace(SubSeq(s, Len(s), Len(s)))
  THEN TrimEnd(SubSeq(s, 1, Len(s) - 1)) ELSE s

\* String.prototype.trim
Trim(s) == TrimEnd(TrimStart(s))

\* line === 'ok'
IsOk(line) == line = "ok"

\* line.startsWith('Error:')
IsError(line) == StartsWith(line, "Error:")

\* line.substring(6).trim()
ErrorMessage(line) == Trim(SubSeq(line, 7, Len(line)))

\* IsImmediate for M115 only
IsImmediateM115Only(command) == command = "M115"

\* command === 'M115' || command.startsWith('M114')
IsImmediate(command) == command = "M115" \/ StartsWith(command, "M114")

----------------------------------------------------------------------------
(* Command builder *)

DigitStr(d) == SubSeq("0123456789", d + 1, d + 1)

RECURSIVE NatStr(_)
NatStr(n) == IF n < 10 THEN DigitStr(n) ELSE NatStr(n \div 10) \o DigitStr(n % 10)

\* a number, given as the decimal m * 10^e: D(125, -1) is 12.5, D(1, -7) is 1e-7
D(m, e) == [m |-> m, e |-> e]

\* the same number with no trailing zero in m; zero is D(0, 0)
RECURSIVE Normal(_)
Normal(d) ==
  IF d.m = 0 THEN D(0, 0)
  ELSE IF d.m % 10 = 0 THEN Normal(D(d.m \div 10, d.e + 1))
  ELSE d

RECURSIVE Zeros(_)
Zeros(n) == IF n <= 0 THEN "" ELSE "0" \o Zeros(n - 1)

\* `${v}` for a number v, which is Number.prototype.toString: with s the k
\* digits of v and v = 0.s * 10^n, the digits are written out in full when
\* -6 < n <= 21 and with an exponent otherwise
NumStr(v) ==
  LET d == Normal(v)
      a == IF d.m < 0 THEN -d.m ELSE d.m
      s == NatStr(a)
      k == Len(s)
      n == k + d.e
      x == n - 1
  IN  IF d.m = 0 THEN "0"
      ELSE (IF d.m < 0 THEN "-" ELSE "")
        \o (IF k <= n /\ n <= 21 THEN s \o Zeros(n - k)
            ELSE IF 0 < n /\ n <= 21 THEN SubSeq(s, 1, n) \o "." \o SubSeq(s, n + 1, k)
            ELSE IF -6 < n /\ n <= 0 THEN "0." \o Zeros(-n) \o s
            ELSE SubSeq(s, 1, 1)
                   \o (IF k > 1 THEN "." \o SubSeq(s, 2, k) ELSE "")
                   \o "e" \o (IF x < 0 THEN "-" ELSE "+")
                   \o NatStr(IF x < 0 THEN -x ELSE x))

\* MoveCommand with the speed word appended whatever the speed
MoveCommandAlwaysSpeed(v, rapid, speed) ==
  (IF rapid THEN "G0" ELSE "G1")
    \o (IF "x" \in DOMAIN v THEN " X" \o NumStr(v.x) ELSE "")
    \o (IF "y" \in DOMAIN v THEN " Y" \o NumStr(v.y) ELSE "")
    \o (IF "z" \in DOMAIN v THEN " Z" \o NumStr(v.z) ELSE "")
    \o " F" \o NatStr(IF speed > 0 THEN speed ELSE 0)

\* the axis and speed words of absoluteMove and deltaMove; an axis that is
\* undefined is a field the record does not have; speed is an integer
MoveCommand(v, rapid, speed) ==
  (IF rapid THEN "G0" ELSE "G1")
    \o (IF "x" \in DOMAIN v THEN " X" \o NumStr(v.x) ELSE "")
    \o (IF "y" \in DOMAIN v THEN " Y" \o NumStr(v.y) ELSE "")
    \o (IF "z" \in DOMAIN v THEN " Z" \o NumStr(v.z) ELSE "")
    \o (IF speed > 0 THEN " F" \o NatStr(speed) ELSE "")

\* setHome's command
HomeCommand(axes) ==
  "G28" \o (IF axes.x THEN " X0" ELSE "")
        \o (IF axes.y THEN " Y0" ELSE "")
        \o (IF axes.z THEN " Z0" ELSE "")

----------------------------------------------------------------------------
(* The device's numbers (CommandParser.cpp) *)

\* isdigit
IsDigit(ch) == \E d \in 0..9 : DigitStr(d) = ch

\* the loop of isValidNumber over the text after the sign: only digits and
\* at most one decimal point
RECURSIVE DigitsAndPoint(_, _)
DigitsAndPoint(str, hasDecimal) ==
  IF str = "" THEN TRUE
  ELSE LET ch == SubSeq(str, 1, 1)
           rest == SubSeq(str, 2, Len(str))
       IN  IF IsDigit(ch) THEN DigitsAndPoint(rest, hasDecimal)
           ELSE IF ch = "." /\ ~hasDecimal THEN DigitsAndPoint(rest, TRUE)
           ELSE FALSE

\* CommandParser::isValidNumber
IsValidNumber(str) ==
  LET body == IF str # "" /\ SubSeq(str, 1, 1) \in {"-", "+"}
              THEN SubSeq(str, 2, Len(str)) ELSE str
  IN  /\ str # ""
      /\ DigitsAndPoint(body, FALSE)
      /\ \E i \in 1..Len(body) : IsDigit(SubSeq(body, i, i))

\* the natural number a text of digits stands for
RECURSIVE NatOf(_)
NatOf(str) ==
  IF str = "" THEN 0
  ELSE 10 * NatOf(SubSeq(str, 1, Len(str) - 1))
         + (CHOOSE d \in 0..9 : DigitStr(d) = SubSeq(str, Len(str), Len(str)))

\* atof of a text isValidNumber accepts: the number its sign, digits and
\* decimal point stand for
Atof(str) ==
  LET neg == SubSeq(str, 1, 1) = "-"
      body == IF SubSeq(str, 1, 1) \in {"-", "+"} THEN SubSeq(str, 2, Len(str)) ELSE str
      dots == {i \in 1..Len(body) : SubSeq(body, i, i) = "."}
      dot == IF dots = {} THEN Len(body) + 1 ELSE CHOOSE i \in dots : TRUE
      whole == SubSeq(body, 1, dot - 1)
      frac == SubSeq(body, dot + 1, Len(body))
      m == NatOf(whole \o frac)
  IN  Normal(D(IF neg THEN -m ELSE m, -Len(frac)))

----------------------------------------------------------------------------
(* Inputs *)

\* texts of send-command
RawCommands == {"G28", "M114"}
\* raw lines the device sends, before the data handler trims them
RawLines == {"ok", "ok\r", "Error: E1 ", "T:20"}
\* targets and distances of the moves, in millimetres: x = 12.5, y = -3
Vectors == {[x |-> D(125, -1), y |-> D(-3, 0)]}
\* the rapid flag of the moves
Rapids == {FALSE}
\* axes of setHome
AxesSets == {[x |-> TRUE, y |-> TRUE, z |-> TRUE]}
\* speeds of setSpeed, in mm/min
Speeds == {0, 1000}

\* values of one axis of a move, in millimetres: 12.5, -3, 0, 0.05, 1e-7
AxisValues == {D(125, -1), D(-3, 0), D(0, 0), D(5, -2), D(1, -7)}
\* the records with any of the fields x, y, z: the moves with any axes given
AxisNames == {"x", "y", "z"}
AllVectors == UNION {[A -> AxisValues] : A \in SUBSET AxisNames}
\* speeds of setSpeed for the builder, in mm/min
AllSpeeds == {0, 1000, 60, -5}

\* n copies of the character ch
RECURSIVE Rep(_, _)
Rep(ch, n) == IF n = 0 THEN "" ELSE ch \o Rep(ch, n - 1)

\* a line of BUFFER_SIZE characters before its last word: one character
\* more than cmdBuffer holds
LongLine == "ABSOLUTE_MOVE " \o Rep("0", BUFFER_SIZE - 14) \o "GET_ID"

\* a line of BUFFER_SIZE - 1 characters, the longest cmdBuffer holds
FullLine == "ABSOLUTE_MOVE 1 2 " \o Rep("0", BUFFER_SIZE - 19)

\* lines sent to the device's command parser
HostLines == {"GET_ID", "go_home", "SET_SPEED -5", "FOO 1", FullLine, LongLine}

----------------------------------------------------------------------------
(* Promises and the event loop *)

Pending == "pending"

\* resolve or reject of a Promise: only the first call settles it
Settle(old, new) == IF old = Pending THEN new ELSE old

CallIds == 1..Len(calls)

\* the number of connect calls made so far
Connects == Cardinality({p \in Ports : conn[p].st # "none"})

\* the calls made so far that count against MaxOps
Ops == Len(calls) + Connects + Len(disc) + speedSets

\* the deltaMove call awaits a sendCommand call that has settled
DeltaReady ==
  /\ delta.pc \in {"g91", "move", "restore", "g90"}
  /\ calls[delta.call].outcome # Pending

\* the handshake of connect p awaits a sendCommand call that has settled
ConnReady(p) ==
  /\ conn[p].st = "handshake"
  /\ calls[conn[p].call].outcome # Pending

\* a continuation of an await is queued: it runs before any other job
MicrotaskPending == DeltaReady \/ \E p \in Ports : ConnReady(p)

----------------------------------------------------------------------------
(* constructor *)

Init ==
  /\ isConnected = FALSE
  /\ port = 0
  /\ parser = 0
  /\ currentCommand = Null
  /\ timeoutId = 0
  /\ moveCompleteCallbacks = <<>>
  /\ currentSpeed = 0
  /\ calls = <<>>
  /\ portSt = [p \in Ports |-> "none"]
  /\ listeners = [p \in Ports |-> 0]
  /\ conn = [p \in Ports |-> [st |-> "none", call |-> 0, outcome |-> "none"]]
  /\ disc = <<>>
  /\ delta = [pc |-> "idle", call |-> 0, err |-> "none", outcome |-> "none",
              v |-> <<>>, rapid |-> FALSE]
  /\ slotCall = 0
  /\ speedSets = 0
  /\ errored = 0
  /\ panelPosition = [x |-> 0, y |-> 0, z |-> 0]
  /\ absoluteMove = [x |-> 0, y |-> 0, z |-> 0]
  /\ positionIsForm = FALSE
  /\ panelConnected = FALSE
  /\ answered = [p \in Ports |-> 0]
  /\ configured = FALSE
  /\ wire = ""
  /\ cmdBuffer = ""
  /\ cmdIndex = 0
  /\ out = <<>>
  /\ sent = <<>>
  /\ processed = <<>>

----------------------------------------------------------------------------
(* sendCommand *)

\* an accepted command has not been resolved yet
Busy == \E c \in CallIds : calls[c].port # 0 /\ calls[c].outcome = Pending

\* the record of one sendCommand call.  port: the SerialPort written to (0:
\* nothing was written); wcb: the write callback has not run yet; timer: the
\* timer this call armed has neither fired nor been cleared; outcome: the
\* state of the Promise the call returned.  History, kept for the first call
\* of a run: left: the resolution source ("ok" or "error") that first acted on
\* the call and left its Promise pending, "none" when there is none or the
\* Promise is settled
NewCall(command, ms, owner, p, outcome) ==
  [cmd |-> command, ms |-> ms, owner |-> owner, port |-> p,
   wcb |-> (p # 0), timer |-> FALSE, outcome |-> outcome, left |-> "none"]

\* the call whose history is kept
Watched(c) == c = 1

\* call record r after the step of a resolution source x that acted on it
Noted(r, x) ==
  [r EXCEPT !.left = IF r.outcome # Pending THEN "none"
                     ELSE IF @ = "none" THEN x ELSE @]

\* SendCommand with a connection check that looks at this.port only
SendCommandChecksPortOnly(command, ms, owner) ==
  IF port = 0
  THEN /\ calls' = Append(calls, NewCall(command, ms, owner, 0, "NotConnected"))
       /\ UNCHANGED <<currentCommand, slotCall>>
  ELSE /\ calls' = Append(calls, NewCall(command, ms, owner, port, Pending))
       /\ currentCommand' = command
       /\ slotCall' = Len(calls) + 1

\* sendCommand up to the return of the Promise: the connection check, the
\* assignment of currentCommand and the call of port.write
SendCommand(command, ms, owner) ==
  IF ~isConnected \/ port = 0
  THEN /\ calls' = Append(calls, NewCall(command, ms, owner, 0, "NotConnected"))
       /\ UNCHANGED <<currentCommand, slotCall>>
  ELSE /\ calls' = Append(calls, NewCall(command, ms, owner, port, Pending))
       /\ currentCommand' = command
       /\ slotCall' = Len(calls) + 1

\* what sendCommand leaves alone
SendCommandFrame ==
  UNCHANGED <<panel, device, isConnected, port, parser, timeoutId, moveCompleteCallbacks,
              currentSpeed, portSt, listeners, disc, speedSets, errored>>

\* the callback of port.write of call c; err: the write failed
WriteDone(c, err) ==
  /\ ~MicrotaskPending
  /\ calls[c].wcb
  /\ err \/ portSt[calls[c].port] = "open"
  /\ IF err
     THEN /\ currentCommand' = Null
          /\ slotCall' = 0
          /\ calls' = [calls EXCEPT ![c].wcb = FALSE,
                                    ![c].outcome = Settle(@, "WriteError"),
                                    ![c].left = "none"]
          /\ UNCHANGED <<timeoutId, moveCompleteCallbacks>>
     ELSE IF IsImmediate(calls[c].cmd)
     THEN /\ calls' = [calls EXCEPT ![c].wcb = FALSE,
                                    ![c].outcome = Settle(@, "success"),
                                    ![c].left = "none"]
          /\ UNCHANGED <<currentCommand, slotCall, timeoutId, moveCompleteCallbacks>>
     ELSE /\ moveCompleteCallbacks' = Append(moveCompleteCallbacks, c)
          /\ timeoutId' = c
          /\ calls' = [calls EXCEPT ![c].wcb = FALSE, ![c].timer = TRUE]
          /\ UNCHANGED <<currentCommand, slotCall>>
  /\ UNCHANGED <<panel, device, isConnected, port, parser, currentSpeed, portSt, listeners,
                 conn, disc, delta, speedSets, errored>>

\* moveCompleteCallbacks.filter(cb => cb !== resolve), resolve being call c's
RECURSIVE Without(_, _)
Without(q, c) ==
  IF q = <<>> THEN <<>>
  ELSE IF Head(q) = c THEN Without(Tail(q), c)
  ELSE <<Head(q)>> \o Without(Tail(q), c)

\* the guard of the timer callback: this.currentCommand === command
StillPending(c) == currentCommand = calls[c].cmd

\* TimerFires with a timeout that also drops the connection state
TimerFiresDisconnects(c) ==
  /\ ~MicrotaskPending
  /\ calls[c].timer
  /\ IF StillPending(c)
     THEN /\ moveCompleteCallbacks' = Without(moveCompleteCallbacks, c)
          /\ currentCommand' = Null
          /\ slotCall' = 0
          /\ isConnected' = FALSE
          /\ calls' = [calls EXCEPT ![c].timer = FALSE,
                                    ![c].outcome = Settle(@, "Timeout"),
                                    ![c].left = "none"]
     ELSE /\ calls' = [calls EXCEPT ![c].timer = FALSE]
          /\ UNCHANGED <<moveCompleteCallbacks, currentCommand, slotCall, isConnected>>
  /\ UNCHANGED <<panel, device, port, parser, timeoutId, currentSpeed, portSt,
                 listeners, conn, disc, delta, speedSets, errored>>

\* the callback of the timer armed by call c
TimerFires(c) ==
  /\ ~MicrotaskPending
  /\ calls[c].timer
  /\ IF StillPending(c)
     THEN /\ moveCompleteCallbacks' = Without(moveCompleteCallbacks, c)
          /\ currentCommand' = Null
          /\ slotCall' = 0
          /\ calls' = [calls EXCEPT ![c].timer = FALSE,
                                    ![c].outcome = Settle(@, "Timeout"),
                                    ![c].left = "none"]
     ELSE /\ calls' = [calls EXCEPT ![c].timer = FALSE]
          /\ UNCHANGED <<moveCompleteCallbacks, currentCommand, slotCall>>
  /\ UNCHANGED <<panel, device, isConnected, port, parser, timeoutId, currentSpeed, portSt,
                 listeners, conn, disc, delta, speedSets, errored>>

----------------------------------------------------------------------------
(* processResponse *)

Registered(c) == \E i \in 1..Len(moveCompleteCallbacks) : moveCompleteCallbacks[i] = c

\* the line handler or disconnect touches call c, whose Promise is pending:
\* c owns the slot, the armed timer of timeoutId, or a registered callback
Awaiting(c) ==
  /\ calls[c].outcome = Pending
  /\ slotCall = c \/ Registered(c) \/ (timeoutId = c /\ calls[c].timer)

\* the calls after clearTimeout(this.timeoutId) and, when resolveAll, after
\* the resolve call of every registered callback; source: what acted
Cleared(source, resolveAll) ==
  [c \in CallIds |->
     LET r == [calls[c] EXCEPT
                 !.timer = IF c = timeoutId THEN FALSE ELSE @,
                 !.outcome = IF resolveAll /\ Registered(c) THEN Settle(@, "success") ELSE @]
     IN  IF Watched(c) /\ Awaiting(c) /\ source # "disconnect"
         THEN Noted(r, source) ELSE r]

\* ProcessResponse with every line that is not an `Error:` line taken as `ok`
ProcessResponseAnyLineCompletes(line) ==
  IF ~IsError(line)
  THEN /\ timeoutId' = 0
       /\ currentCommand' = Null
       /\ slotCall' = 0
       /\ calls' = Cleared("ok", TRUE)
       /\ moveCompleteCallbacks' = <<>>
  ELSE /\ timeoutId' = 0
       /\ currentCommand' = Null
       /\ slotCall' = 0
       /\ calls' = Cleared("error", FALSE)
       /\ UNCHANGED moveCompleteCallbacks

\* processResponse(line), line already trimmed by the data handler
ProcessResponse(line) ==
  IF IsOk(line)
  THEN /\ timeoutId' = 0
       /\ currentCommand' = Null
       /\ slotCall' = 0
       /\ calls' = Cleared("ok", TRUE)
       /\ moveCompleteCallbacks' = <<>>
  ELSE IF IsError(line)
  THEN /\ timeoutId' = 0
       /\ currentCommand' = Null
       /\ slotCall' = 0
       /\ calls' = Cleared("error", FALSE)
       /\ UNCHANGED moveCompleteCallbacks
  ELSE UNCHANGED <<timeoutId, currentCommand, slotCall, calls, moveCompleteCallbacks>>

\* the 'data' handler of the parser of port p: one line, trimmed.  Several
\* listeners on one parser run processResponse several times on the same
\* line, which leaves the same state as running it once.
LineArrives(p, raw) ==
  /\ ~MicrotaskPending
  /\ portSt[p] = "open"
  /\ listeners[p] > 0
  /\ ProcessResponse(Trim(raw))
  /\ UNCHANGED <<panel, device, isConnected, port, parser, currentSpeed, portSt, listeners,
                 conn, disc, delta, speedSets, errored>>

----------------------------------------------------------------------------
(* A device that answers every command *)

\* the lines such a device sends: one `ok` or one `Error:` line per command
Answers == {"ok", "Error: E1 "}

\* port.write sends the bytes in the order of the calls: the write callback
\* of call c runs after those of the earlier calls on the same port
InOrder(c) ==
  \A b \in CallIds : (b < c /\ calls[b].port = calls[c].port) => ~calls[b].wcb

\* the commands the device at port p has received, in order: the calls
\* written to p whose write callback has run without error
Received(p) ==
  SelectSeq([c \in CallIds |-> c],
            LAMBDA c : /\ calls[c].port = p
                       /\ ~calls[c].wcb
                       /\ calls[c].outcome # "WriteError")

\* the device at port p answers the oldest command it has not answered yet
\* with the line raw, and the 'data' handler runs processResponse on it
DeviceAnswers(p, raw) ==
  /\ ~MicrotaskPending
  /\ portSt[p] = "open"
  /\ listeners[p] > 0
  /\ answered[p] < Len(Received(p))
  /\ ProcessResponse(Trim(raw))
  /\ answered' = [answered EXCEPT ![p] = @ + 1]
  /\ UNCHANGED <<panel, firmware, isConnected, port, parser, currentSpeed, portSt, listeners,
                 conn, disc, delta, speedSets, errored>>

----------------------------------------------------------------------------
(* The public commands *)

CanCall == ~MicrotaskPending /\ Len(calls) < MaxCalls /\ Ops < MaxOps

\* the send-command handler: sendCommand(command, timeout)
SendRaw(command, ms) ==
  /\ CanCall
  /\ SendCommand(command, ms, "user")
  /\ SendCommandFrame
  /\ UNCHANGED <<conn, delta>>

\* setHome(axes)
SetHome(axes) ==
  /\ CanCall
  /\ SendCommand(HomeCommand(axes), DefaultTimeout, "user")
  /\ SendCommandFrame
  /\ UNCHANGED <<conn, delta>>

\* goHome()
GoHome ==
  /\ CanCall
  /\ SendCommand("G28", DefaultTimeout, "user")
  /\ SendCommandFrame
  /\ UNCHANGED <<conn, delta>>

\* SetSpeed that stores a speed greater than zero only
SetSpeedPositiveOnly(speed) ==
  /\ ~MicrotaskPending
  /\ Ops < MaxOps
  /\ currentSpeed' = IF speed > 0 THEN speed ELSE currentSpeed
  /\ speedSets' = speedSets + 1
  /\ UNCHANGED <<panel, device, isConnected, port, parser, currentCommand, timeoutId,
                 moveCompleteCallbacks, calls, portSt, listeners, conn, disc,
                 delta, slotCall, errored>>

\* setSpeed(speed)
SetSpeed(speed) ==
  /\ ~MicrotaskPending
  /\ Ops < MaxOps
  /\ currentSpeed' = speed
  /\ speedSets' = speedSets + 1
  /\ UNCHANGED <<panel, device, isConnected, port, parser, currentCommand, timeoutId,
                 moveCompleteCallbacks, calls, portSt, listeners, conn, disc,
                 delta, slotCall, errored>>

\* absoluteMove(position, rapid)
AbsoluteMove(position, rapid) ==
  /\ CanCall
  /\ SendCommand(MoveCommand(position, rapid, currentSpeed), DefaultTimeout, "user")
  /\ SendCommandFrame
  /\ UNCHANGED <<conn, delta>>

----------------------------------------------------------------------------
(* deltaMove *)

\* deltaMove(distance, rapid) up to its first await: sendCommand('G91')
DeltaMove(distance, rapid) ==
  /\ CanCall
  /\ delta.pc = "idle"
  /\ SendCommand("G91", DefaultTimeout, "delta")
  /\ delta' = [pc |-> "g91", call |-> Len(calls) + 1, err |-> "none",
               outcome |-> Pending, v |-> distance, rapid |-> rapid]
  /\ SendCommandFrame
  /\ UNCHANGED conn

\* the catch block up to its await: sendCommand('G90'), error kept for the throw
DeltaCatch(error) ==
  /\ SendCommand("G90", DefaultTimeout, "delta")
  /\ delta' = [delta EXCEPT !.pc = "restore", !.call = Len(calls) + 1, !.err = error]

\* DeltaStep with the catch block throwing restoreError in place of error
DeltaStepMasksError ==
  /\ DeltaReady
  /\ LET o == calls[delta.call].outcome IN
       CASE delta.pc = "g91" ->
              /\ Len(calls) < MaxCalls /\ Ops < MaxOps
              /\ IF o = "success"
                 THEN /\ SendCommand(MoveCommand(delta.v, delta.rapid, currentSpeed),
                                     DefaultTimeout, "delta")
                      /\ delta' = [delta EXCEPT !.pc = "move", !.call = Len(calls) + 1]
                 ELSE DeltaCatch(o)
         [] delta.pc = "move" ->
              /\ Len(calls) < MaxCalls /\ Ops < MaxOps
              /\ IF o = "success"
                 THEN /\ SendCommand("G90", DefaultTimeout, "delta")
                      /\ delta' = [delta EXCEPT !.pc = "g90", !.call = Len(calls) + 1]
                 ELSE DeltaCatch(o)
         [] delta.pc = "restore" ->
              /\ delta' = [delta EXCEPT !.pc = "done", !.outcome = IF o = "success" THEN delta.err ELSE o]
              /\ UNCHANGED <<calls, currentCommand, slotCall>>
         [] delta.pc = "g90" ->
              /\ delta' = [delta EXCEPT !.pc = "done", !.outcome = o]
              /\ UNCHANGED <<calls, currentCommand, slotCall>>
  /\ SendCommandFrame
  /\ UNCHANGED conn

\* DeltaStep returning after the motion command, without the final G90
DeltaStepNoRestore ==
  /\ DeltaReady
  /\ LET o == calls[delta.call].outcome IN
       CASE delta.pc = "g91" ->
              /\ Len(calls) < MaxCalls /\ Ops < MaxOps
              /\ IF o = "success"
                 THEN /\ SendCommand(MoveCommand(delta.v, delta.rapid, currentSpeed),
                                     DefaultTimeout, "delta")
                      /\ delta' = [delta EXCEPT !.pc = "move", !.call = Len(calls) + 1]
                 ELSE DeltaCatch(o)
         [] delta.pc = "move" ->
              /\ Len(calls) < MaxCalls /\ Ops < MaxOps
              /\ IF o = "success"
                 THEN /\ delta' = [delta EXCEPT !.pc = "done", !.outcome = o]
                      /\ UNCHANGED <<calls, currentCommand, slotCall>>
                 ELSE DeltaCatch(o)
         [] delta.pc = "restore" ->
              /\ delta' = [delta EXCEPT !.pc = "done", !.outcome = delta.err]
              /\ UNCHANGED <<calls, currentCommand, slotCall>>
         [] delta.pc = "g90" ->
              /\ delta' = [delta EXCEPT !.pc = "done", !.outcome = o]
              /\ UNCHANGED <<calls, currentCommand, slotCall>>
  /\ SendCommandFrame
  /\ UNCHANGED conn

\* DeltaStep with the G90 of the success path awaited inside the try, so
\* that its failure enters the catch block
DeltaStepAwaitsG90 ==
  /\ DeltaReady
  /\ LET o == calls[delta.call].outcome IN
       CASE delta.pc = "g91" ->
              /\ Len(calls) < MaxCalls /\ Ops < MaxOps
              /\ IF o = "success"
                 THEN /\ SendCommand(MoveCommand(delta.v, delta.rapid, currentSpeed),
                                     DefaultTimeout, "delta")
                      /\ delta' = [delta EXCEPT !.pc = "move", !.call = Len(calls) + 1]
                 ELSE DeltaCatch(o)
         [] delta.pc = "move" ->
              /\ Len(calls) < MaxCalls /\ Ops < MaxOps
              /\ IF o = "success"
                 THEN /\ SendCommand("G90", DefaultTimeout, "delta")
                      /\ delta' = [delta EXCEPT !.pc = "g90", !.call = Len(calls) + 1]
                 ELSE DeltaCatch(o)
         [] delta.pc = "restore" ->
              /\ delta' = [delta EXCEPT !.pc = "done", !.outcome = delta.err]
              /\ UNCHANGED <<calls, currentCommand, slotCall>>
         [] delta.pc = "g90" ->
              IF o = "success"
              THEN /\ delta' = [delta EXCEPT !.pc = "done", !.outcome = o]
                   /\ UNCHANGED <<calls, currentCommand, slotCall>>
              ELSE DeltaCatch(o)
  /\ SendCommandFrame
  /\ UNCHANGED conn


\* deltaMove resumed after the awaited sendCommand call settled
DeltaStep ==
  /\ DeltaReady
  /\ LET o == calls[delta.call].outcome IN
       CASE delta.pc = "g91" ->
              /\ Len(calls) < MaxCalls /\ Ops < MaxOps
              /\ IF o = "success"
                 THEN /\ SendCommand(MoveCommand(delta.v, delta.rapid, currentSpeed),
                                     DefaultTimeout, "delta")
                      /\ delta' = [delta EXCEPT !.pc = "move", !.call = Len(calls) + 1]
                 ELSE DeltaCatch(o)
         [] delta.pc = "move" ->
              /\ Len(calls) < MaxCalls /\ Ops < MaxOps
              /\ IF o = "success"
                 THEN /\ SendCommand("G90", DefaultTimeout, "delta")
                      /\ delta' = [delta EXCEPT !.pc = "g90", !.call = Len(calls) + 1]
                 ELSE DeltaCatch(o)
         [] delta.pc = "restore" ->
              /\ delta' = [delta EXCEPT !.pc = "done", !.outcome = delta.err]
              /\ UNCHANGED <<calls, currentCommand, slotCall>>
         [] delta.pc = "g90" ->
              /\ delta' = [delta EXCEPT !.pc = "done", !.outcome = o]
              /\ UNCHANGED <<calls, currentCommand, slotCall>>
  /\ SendCommandFrame
  /\ UNCHANGED conn

----------------------------------------------------------------------------
(* connect *)

\* the port of the next connect call
NextPort == CHOOSE p \in Ports : conn[p].st = "none" /\ \A q \in 1..(p - 1) : conn[q].st # "none"

\* connect(portPath, options) up to port.open(); valid: new SerialPort does
\* not throw
Connect(valid) ==
  /\ ~MicrotaskPending
  /\ Ops < MaxOps
  /\ \E p \in Ports : conn[p].st = "none"
  /\ LET p == NextPort IN
       IF valid
       THEN /\ port' = p
            /\ parser' = p
            /\ portSt' = [portSt EXCEPT ![p] = "opening"]
            /\ conn' = [conn EXCEPT ![p] = [st |-> "opening", call |-> 0, outcome |-> Pending]]
            /\ UNCHANGED isConnected
       ELSE /\ isConnected' = FALSE
            /\ conn' = [conn EXCEPT ![p] = [st |-> "threw", call |-> 0, outcome |-> "ConnectError"]]
            /\ UNCHANGED <<port, parser, portSt>>
  /\ UNCHANGED <<panel, device, currentCommand, timeoutId, moveCompleteCallbacks, currentSpeed,
                 calls, listeners, disc, delta, slotCall, speedSets, errored>>

\* the 'open' handler of port p
PortOpen(p) ==
  /\ ~MicrotaskPending
  /\ portSt[p] = "opening"
  /\ isConnected' = TRUE
  /\ portSt' = [portSt EXCEPT ![p] = "open"]
  /\ listeners' = [listeners EXCEPT ![parser] = @ + 1]
  /\ conn' = [conn EXCEPT ![p].st = "delay"]
  /\ errored' = IF p > errored \/ p = port THEN 0 ELSE errored
  /\ UNCHANGED <<panel, device, port, parser, currentCommand, timeoutId, moveCompleteCallbacks,
                 currentSpeed, calls, disc, delta, slotCall, speedSets>>

\* the 'error' handler of port p: a port that could not be opened stays
\* closed, an open port stays open (the handler does not close it)
PortError(p) ==
  /\ ~MicrotaskPending
  /\ portSt[p] \in {"opening", "open"}
  /\ isConnected' = FALSE
  /\ conn' = [conn EXCEPT ![p].outcome = Settle(@, "TransportError")]
  /\ portSt' = [portSt EXCEPT ![p] = IF @ = "opening" THEN "closed" ELSE @]
  /\ errored' = Connects
  /\ UNCHANGED <<panel, device, port, parser, currentCommand, timeoutId, moveCompleteCallbacks,
                 currentSpeed, calls, listeners, disc, delta, slotCall, speedSets>>

\* the callback of the startup timer of connect p, up to its await:
\* sendCommand('M115')
HandshakeTimer(p) ==
  /\ CanCall
  /\ conn[p].st = "delay"
  /\ SendCommand("M115", DefaultTimeout, "connect")
  /\ conn' = [conn EXCEPT ![p].st = "handshake", ![p].call = Len(calls) + 1]
  /\ SendCommandFrame
  /\ UNCHANGED delta

\* the startup callback resumed after the handshake settled: resolve(true),
\* or the rejection leaves the callback by an exception nobody handles
ConnStep(p) ==
  /\ ConnReady(p)
  /\ IF calls[conn[p].call].outcome = "success"
     THEN /\ conn' = [conn EXCEPT ![p].st = "done", ![p].outcome = Settle(@, "success")]
          /\ errored' = IF conn[p].outcome = Pending THEN 0 ELSE errored
     ELSE /\ conn' = [conn EXCEPT ![p].st = "dead"]
          /\ UNCHANGED errored
  /\ UNCHANGED <<panel, device, isConnected, port, parser, currentCommand, timeoutId,
                 moveCompleteCallbacks, currentSpeed, calls, portSt, listeners,
                 disc, delta, slotCall, speedSets>>

----------------------------------------------------------------------------
(* disconnect *)

\* disconnect() up to port.close()
Disconnect ==
  /\ ~MicrotaskPending
  /\ Ops < MaxOps
  /\ Len(disc) < MaxDisconnects
  /\ IF ~isConnected
     THEN /\ disc' = Append(disc, [port |-> 0, outcome |-> "success"])
          /\ UNCHANGED <<timeoutId, calls>>
     ELSE /\ timeoutId' = 0
          /\ calls' = Cleared("disconnect", FALSE)
          /\ disc' = Append(disc, IF port = 0
                                  THEN [port |-> 0, outcome |-> "TypeError"]
                                  ELSE [port |-> port, outcome |-> Pending])
  /\ UNCHANGED <<panel, device, isConnected, port, parser, currentCommand, moveCompleteCallbacks,
                 currentSpeed, portSt, listeners, conn, delta, slotCall, speedSets, errored>>

\* CloseDone without its assignments of isConnected and port
CloseDoneKeepsConnected(d, err) ==
  /\ ~MicrotaskPending
  /\ disc[d].outcome = Pending
  /\ err \/ portSt[disc[d].port] = "open"
  /\ IF err
     THEN /\ disc' = [disc EXCEPT ![d].outcome = "CloseError"]
          /\ UNCHANGED portSt
     ELSE /\ portSt' = [portSt EXCEPT ![disc[d].port] = "closed"]
          /\ disc' = [disc EXCEPT ![d].outcome = "success"]
  /\ UNCHANGED <<panel, device, isConnected, port, parser, currentCommand, timeoutId,
                 moveCompleteCallbacks, currentSpeed, calls, listeners, conn,
                 delta, slotCall, speedSets, errored>>

\* the callback of port.close of disconnect call d; err: the close failed
CloseDone(d, err) ==
  /\ ~MicrotaskPending
  /\ disc[d].outcome = Pending
  /\ err \/ portSt[disc[d].port] = "open"
  /\ IF err
     THEN /\ disc' = [disc EXCEPT ![d].outcome = "CloseError"]
          /\ UNCHANGED <<isConnected, port, portSt>>
     ELSE /\ isConnected' = FALSE
          /\ port' = 0
          /\ portSt' = [portSt EXCEPT ![disc[d].port] = "closed"]
          /\ disc' = [disc EXCEPT ![d].outcome = "success"]
  /\ UNCHANGED <<panel, device, parser, currentCommand, timeoutId, moveCompleteCallbacks,
                 currentSpeed, calls, listeners, conn, delta, slotCall, speedSets, errored>>

----------------------------------------------------------------------------
(* The control panel (src/unnamed/part_000).  Its handlers run on the clicks *)
(* of its buttons, which are disabled while its isConnected is false; they  *)
(* call nothing of the client.  Its log is left out.                         *)

\* the client's state, which the panel does not touch
client == <<isConnected, port, parser, currentCommand, timeoutId,
            moveCompleteCallbacks, currentSpeed, calls, portSt, listeners,
            conn, disc, delta, slotCall, speedSets, errored>>

\* values typed into a field of a move, in tenths of a millimetre
PanelValues == {0, 100}

Origin == [x |-> 0, y |-> 0, z |-> 0]

\* handleConnect, a port being selected
HandleConnect ==
  /\ ~panelConnected
  /\ panelConnected' = TRUE
  /\ UNCHANGED <<client, device, panelPosition, absoluteMove, positionIsForm>>

\* handleDisconnect
HandleDisconnect ==
  /\ panelConnected
  /\ panelConnected' = FALSE
  /\ UNCHANGED <<client, device, panelPosition, absoluteMove, positionIsForm>>

\* handleSetHome: position is a new object
HandleSetHome ==
  /\ panelConnected
  /\ panelPosition' = Origin
  /\ positionIsForm' = FALSE
  /\ UNCHANGED <<client, device, absoluteMove, panelConnected>>

\* handleGoHome: position is a new object
HandleGoHome ==
  /\ panelConnected
  /\ panelPosition' = Origin
  /\ positionIsForm' = FALSE
  /\ UNCHANGED <<client, device, absoluteMove, panelConnected>>

\* bind:value of a field of the absolute move: the field is assigned in the
\* object absoluteMove, which position is too after handleAbsoluteMove
BindAbsoluteMove(axis, value) ==
  /\ absoluteMove' = [absoluteMove EXCEPT ![axis] = value]
  /\ panelPosition' = IF positionIsForm THEN absoluteMove' ELSE panelPosition
  /\ UNCHANGED <<client, device, positionIsForm, panelConnected>>

\* handleAbsoluteMove: position = absoluteMove
HandleAbsoluteMove ==
  /\ panelConnected
  /\ panelPosition' = absoluteMove
  /\ positionIsForm' = TRUE
  /\ UNCHANGED <<client, device, absoluteMove, panelConnected>>

\* handleDeltaMove, the fields of deltaMove holding distance: position is a
\* new object
HandleDeltaMove(distance) ==
  /\ panelConnected
  /\ \A a \in AxisNames : panelPosition[a] + distance[a] <= MaxTravel
  /\ panelPosition' = [a \in AxisNames |-> panelPosition[a] + distance[a]]
  /\ positionIsForm' = FALSE
  /\ UNCHANGED <<client, device, absoluteMove, panelConnected>>

----------------------------------------------------------------------------
(* The device's command parser (CommandParser.cpp).  The callbacks that     *)
(* config() registers belong to the sketch, not to the parser: they are     *)
(* taken to print nothing and to leave their arguments as passed.           *)

\* isspace of <ctype.h>, on the characters a text here can hold
isspace(ch) == ch \in {" ", "\t", "\n", "\r", "\f"}

\* CommandParser::trim
RECURSIVE trim(_)
trim(str) ==
  IF str = "" THEN str
  ELSE IF isspace(SubSeq(str, 1, 1)) THEN trim(SubSeq(str, 2, Len(str)))
  ELSE IF isspace(SubSeq(str, Len(str), Len(str))) THEN trim(SubSeq(str, 1, Len(str) - 1))
  ELSE str

LowerCase == <<"a", "b", "c", "d", "e", "f", "g", "h", "i", "j", "k", "l", "m",
               "n", "o", "p", "q", "r", "s", "t", "u", "v", "w", "x", "y", "z">>
UpperCase == <<"A", "B", "C", "D", "E", "F", "G", "H", "I", "J", "K", "L", "M",
               "N", "O", "P", "Q", "R", "S", "T", "U", "V", "W", "X", "Y", "Z">>

\* toupper of <ctype.h>
toupper(ch) ==
  IF \E i \in 1..26 : LowerCase[i] = ch
  THEN UpperCase[CHOOSE i \in 1..26 : LowerCase[i] = ch]
  ELSE ch

\* CommandParser::convertToUppercase
RECURSIVE convertToUppercase(_)
convertToUppercase(str) ==
  IF str = "" THEN str
  ELSE toupper(SubSeq(str, 1, 1)) \o convertToUppercase(SubSeq(str, 2, Len(str)))

\* the tokens the successive strtok(..., " ") calls on str return
RECURSIVE strtok(_)
strtok(str) ==
  IF str = "" THEN <<>>
  ELSE IF SubSeq(str, 1, 1) = " " THEN strtok(SubSeq(str, 2, Len(str)))
  ELSE LET ends == {i \in 1..Len(str) : i = Len(str) \/ SubSeq(str, i + 1, i + 1) = " "}
           n == CHOOSE i \in ends : \A j \in ends : i <= j
       IN  <<SubSeq(str, 1, n)>> \o strtok(SubSeq(str, n + 1, Len(str)))

\* CommandParser::reportError (CommandParser.h): the line it prints
reportError(errorMessage) == <<"ERROR: " \o errorMessage>>

\* CommandParser::help: the lines it prints
help ==
  <<"Available commands:",
    "HELP - Displays this help message",
    "SET_HOME - Sets current position as home (0,0,0)",
    "GO_HOME - Moves to home position (0,0,0)",
    "ABSOLUTE_MOVE x y z - Moves to absolute position x, y, z",
    "DELTA_MOVE dx dy dz - Moves relative to current position by dx, dy, dz",
    "GET_POSITION - Returns current position",
    "SET_SPEED speed - Sets movement speed to speed in mm/s",
    "GET_SPEED - Returns current movement speed in mm/s",
    "GET_MIN_SPEED - Returns minimum allowed movement speed in mm/s",
    "GET_MAX_SPEED - Returns maximum allowed movement speed in mm/s",
    "GET_ID - Returns the unique device identifier",
    "CHECK_ERRORS - Performs system diagnostics and reports any errors">>

\* the call of the callback of command name, or the error when it is nullptr
Callback(name, set) ==
  IF set THEN <<>> ELSE reportError(name \o " function not configured")

\* the body of ABSOLUTE_MOVE and DELTA_MOVE: three parameters, all numbers
ThreeFloats(name, args, usage, set) ==
  IF Len(args) >= 3
  THEN IF IsValidNumber(args[1]) /\ IsValidNumber(args[2]) /\ IsValidNumber(args[3])
       THEN Callback(name, set)
       ELSE reportError("Invalid number format - Usage: " \o name \o " " \o usage
                          \o " (where " \o usage \o " are numbers)")
  ELSE reportError("Missing parameters - Usage: " \o name \o " " \o usage)

\* the body of SET_SPEED: one parameter, a number greater than zero
OneSpeed(args, set) ==
  IF Len(args) >= 1
  THEN IF IsValidNumber(args[1])
       THEN IF Atof(args[1]).m > 0
            THEN Callback("SET_SPEED", set)
            ELSE reportError("Speed must be positive - Usage: SET_SPEED speed (where speed > 0)")
       ELSE reportError("Invalid number format - Usage: SET_SPEED speed (where speed is a number)")
  ELSE reportError("Missing parameter - Usage: SET_SPEED speed")

\* CommandParser::processCommand on the text buffer: the lines it prints;
\* set: the callbacks are configured
processCommand(buffer, set) ==
  LET tokens == strtok(buffer)
      token == tokens[1]
      args == Tail(tokens)
  IN  IF tokens = <<>> THEN <<>>
      ELSE IF token \in {"SET_HOME", "GO_HOME", "CHECK_ERRORS"}
      THEN <<"ACK " \o token>> \o Callback(token, set) \o <<"DONE " \o token>>
      ELSE IF token = "HELP"
      THEN <<"ACK HELP">> \o help \o <<"DONE HELP">>
      ELSE IF token = "ABSOLUTE_MOVE"
      THEN <<"ACK " \o token>> \o ThreeFloats(token, args, "x y z", set)
             \o <<"DONE " \o token>>
      ELSE IF token = "DELTA_MOVE"
      THEN <<"ACK " \o token>> \o ThreeFloats(token, args, "dx dy dz", set)
             \o <<"DONE " \o token>>
      ELSE IF token = "GET_POSITION"
      THEN <<"ACK " \o token>> \o Callback(token, set)
             \o <<"DONE GET_POSITION: 0.00 0.00 0.00">>
      ELSE IF token = "SET_SPEED"
      THEN <<"ACK " \o token>> \o OneSpeed(args, set) \o <<"DONE " \o token>>
      ELSE IF token \in {"GET_SPEED", "GET_MIN_SPEED", "GET_MAX_SPEED"}
      THEN <<"ACK " \o token>> \o Callback(token, set) \o <<"DONE " \o token \o ": 0">>
      ELSE IF token = "GET_ID"
      THEN <<"ACK GET_ID", "DONE GET_ID: " \o DEVICE_ID>>
      ELSE reportError("Unknown command - ") \o <<token>> \o help

\* the place of the first line end in bytes, one past the end when none
LineEnd(bytes) ==
  LET ends == {i \in 1..Len(bytes) : SubSeq(bytes, i, i) \in {"\n", "\r"}}
  IN  IF ends = {} THEN Len(bytes) + 1
      ELSE CHOOSE i \in ends : \A j \in ends : i <= j

\* the inner loop of read: the bytes left after those it discards, up to
\* and including the first line end, or all of them when there is none
Discard(bytes) == SubSeq(bytes, LineEnd(bytes) + 1, Len(bytes))

\* the loop of read over the available bytes, from the parser state st.
\* The characters before the next line end are taken together: each is
\* stored while cmdIndex < BUFFER_SIZE - 1, and the first one that finds the
\* buffer full resets cmdIndex, reports the error and starts the inner loop
RECURSIVE ReadLoop(_, _)
ReadLoop(bytes, st) ==
  IF bytes = "" THEN st
  ELSE LET end == LineEnd(bytes)
           room == (BUFFER_SIZE - 1) - st.cmdIndex
           after == SubSeq(bytes, end + 1, Len(bytes))
           stored == SubSeq(st.cmdBuffer, 1, st.cmdIndex) \o SubSeq(bytes, 1, end - 1)
           text == convertToUppercase(trim(stored))
       IN  IF end - 1 > room
           THEN ReadLoop(Discard(SubSeq(bytes, room + 2, Len(bytes))),
                         [st EXCEPT !.cmdBuffer = "", !.cmdIndex = 0,
                                    !.out = @ \o reportError("Command too long")])
           ELSE IF end > Len(bytes)
           THEN [st EXCEPT !.cmdBuffer = stored, !.cmdIndex = @ + (end - 1)]
           ELSE IF st.cmdIndex + (end - 1) > 0
           THEN ReadLoop(after, [cmdBuffer |-> "", cmdIndex |-> 0,
                                 out |-> st.out \o processCommand(text, configured),
                                 processed |-> Append(st.processed, text)])
           ELSE ReadLoop(after, st)

\* CommandParser::config
config ==
  /\ ~configured
  /\ configured' = TRUE
  /\ UNCHANGED <<client, panel, answered, wire, cmdBuffer, cmdIndex, out, sent, processed>>

\* CommandParser::read, called from the sketch's loop; n: the bytes that
\* have reached the receive buffer since the last call, which Serial.read
\* hands over while Serial.available() > 0
read(n) ==
  /\ n \in 1..Len(wire)
  /\ LET st == ReadLoop(SubSeq(wire, 1, n),
                        [cmdBuffer |-> cmdBuffer, cmdIndex |-> cmdIndex,
                         out |-> out, processed |-> processed])
     IN  /\ cmdBuffer' = st.cmdBuffer
         /\ cmdIndex' = st.cmdIndex
         /\ out' = st.out
         /\ processed' = st.processed
  /\ wire' = SubSeq(wire, n + 1, Len(wire))
  /\ UNCHANGED <<client, panel, answered, configured, sent>>

\* the host writes the line and its line end to the serial link
HostSends(line) ==
  /\ Len(sent) < MaxLines
  /\ sent' = Append(sent, line)
  /\ wire' = wire \o line \o "\n"
  /\ UNCHANGED <<client, panel, answered, configured, cmdBuffer, cmdIndex, out, processed>>

----------------------------------------------------------------------------
(* The event loop *)

Timeouts == {DefaultTimeout}

Next ==
  \/ \E command \in RawCommands, ms \in Timeouts : SendRaw(command, ms)
  \/ \E axes \in AxesSets : SetHome(axes)
  \/ GoHome
  \/ \E speed \in Speeds : SetSpeed(speed)
  \/ \E position \in Vectors, rapid \in Rapids : AbsoluteMove(position, rapid)
  \/ \E distance \in Vectors, rapid \in Rapids : DeltaMove(distance, rapid)
  \/ DeltaStep
  \/ \E c \in CallIds, err \in BOOLEAN : WriteDone(c, err)
  \/ \E c \in CallIds : TimerFires(c)
  \/ \E p \in Ports, raw \in RawLines : LineArrives(p, raw)
  \/ \E valid \in BOOLEAN : Connect(valid)
  \/ \E p \in Ports : PortOpen(p)
  \/ \E p \in Ports : PortError(p)
  \/ \E p \in Ports : HandshakeTimer(p)
  \/ \E p \in Ports : ConnStep(p)
  \/ Disconnect
  \/ \E d \in 1..Len(disc), err \in BOOLEAN : CloseDone(d, err)

Spec == Init /\ [][Next]_vars

\* Node runs every callback that is due: an armed timer fires, a write
\* callback runs, and the continuation of a settled await runs.  Lines and
\* port events are the device's and may never come.
TimerStep == \E c \in CallIds : TimerFires(c)
WriteStep == \E c \in CallIds, err \in BOOLEAN : WriteDone(c, err)
ConnSteps == \E p \in Ports : ConnStep(p)

FairSpec ==
  /\ Spec
  /\ WF_vars(TimerStep)
  /\ WF_vars(WriteStep)
  /\ WF_vars(DeltaStep)
  /\ WF_vars(ConnSteps)

\* The client with a device that never answers: no line arrives, every write
\* succeeds, the ports raise no 'error' event and open as asked, and the
\* only requests are connect, set-speed and delta-move.
QuietNext ==
  \/ \E speed \in Speeds : SetSpeed(speed)
  \/ \E distance \in Vectors, rapid \in Rapids : DeltaMove(distance, rapid)
  \/ DeltaStep
  \/ \E c \in CallIds : WriteDone(c, FALSE)
  \/ \E c \in CallIds : TimerFires(c)
  \/ Connect(TRUE)
  \/ \E p \in Ports : PortOpen(p)
  \/ \E p \in Ports : HandshakeTimer(p)
  \/ \E p \in Ports : ConnStep(p)

QuietSpec == Init /\ [][QuietNext]_vars

\* The client used for its command builder: moves with any axes, rapid or
\* not, at any speed, before and after the port is opened.
MovesMade ==
  Cardinality({c \in CallIds : calls[c].owner = "user"})
    + (IF delta.pc = "idle" THEN 0 ELSE 1)

BuilderNext ==
  \/ \E speed \in AllSpeeds : SetSpeed(speed)
  \/ /\ MovesMade < MaxMoves
     /\ \E position \in AllVectors, rapid \in BOOLEAN : AbsoluteMove(position, rapid)
  \/ /\ MovesMade < MaxMoves
     /\ \E distance \in AllVectors, rapid \in BOOLEAN : DeltaMove(distance, rapid)
  \/ DeltaStep
  \/ \E c \in CallIds : WriteDone(c, FALSE)
  \/ \E p \in Ports : LineArrives(p, "ok")
  \/ Connect(TRUE)
  \/ \E p \in Ports : PortOpen(p)

BuilderSpec == Init /\ [][BuilderNext]_vars

\* The control panel next to the client: the clicks and field edits of the
\* panel, and a client that connects and makes one absolute move which an
\* `ok` line completes.
PanelNext ==
  \/ HandleConnect
  \/ HandleDisconnect
  \/ HandleSetHome
  \/ HandleGoHome
  \/ \E axis \in AxisNames, value \in PanelValues : BindAbsoluteMove(axis, value)
  \/ HandleAbsoluteMove
  \/ \E distance \in [AxisNames -> PanelValues] : HandleDeltaMove(distance)
  \/ Connect(TRUE)
  \/ \E p \in Ports : PortOpen(p)
  \/ /\ MovesMade < MaxMoves
     /\ \E target \in Vectors, rapid \in Rapids : AbsoluteMove(target, rapid)
  \/ \E c \in CallIds : WriteDone(c, FALSE)
  \/ \E p \in Ports : LineArrives(p, "ok")

PanelSpec == Init /\ [][PanelNext]_vars

\* The client with a device that answers every command it receives,
\* M115 and M114 included, with one line, in order and before the
\* command's timer fires: one connect, commands, no write fails.
AnswerNext ==
  \/ \E command \in RawCommands, ms \in Timeouts : SendRaw(command, ms)
  \/ GoHome
  \/ \E c \in CallIds : InOrder(c) /\ WriteDone(c, FALSE)
  \/ \E p \in Ports, raw \in Answers : DeviceAnswers(p, raw)
  \/ Connects = 0 /\ Connect(TRUE)
  \/ \E p \in Ports : PortOpen(p)
  \/ \E p \in Ports : HandshakeTimer(p)
  \/ \E p \in Ports : ConnStep(p)

AnswerSpec == Init /\ [][AnswerNext]_vars

\* The device's command parser alone: lines sent by the host reach it in
\* pieces of any size, one piece for each read call of the sketch's loop.
ParserNext ==
  \/ config
  \/ \E n \in 1..(MaxLines * (BUFFER_SIZE + 7)) : read(n)
  \/ \E line \in HostLines : HostSends(line)

ParserSpec == Init /\ [][ParserNext]_vars

----------------------------------------------------------------------------
(* Properties *)

\* call c was accepted (written to the transport) and is not resolved
Unresolved(c) == c \in CallIds /\ calls[c].port # 0 /\ calls[c].outcome = Pending

\* call c is past its write and waits for its resolution
Waiting(c) == Unresolved(c) /\ Registered(c)

\* call c is resolved
Settled(c) == c \in CallIds /\ calls[c].outcome # Pending

\* this step is a sendCommand call
CallStep == Len(calls') = Len(calls) + 1

\* this step is one of the racing resolution sources: a line or a timer
ResolutionStep == TimerStep \/ \E p \in Ports, raw \in RawLines : LineArrives(p, raw)

\* this step is the data handler of an `Error:` line, of an `ok` line
ErrorLineStep(raw) == IsError(Trim(raw)) /\ \E p \in Ports : LineArrives(p, raw)
OkLineStep == \E p \in Ports, raw \in RawLines : IsOk(Trim(raw)) /\ LineArrives(p, raw)

\* the failure the pending call is to get from an `Error:` line
DeviceReportedError(line) == "DeviceReportedError: " \o ErrorMessage(line)

\* C1: at most one issued command awaits resolution: at most one accepted
\* call is unresolved, at most one completion callback is registered and at
\* most one timeout timer is armed.
C1_AtMostOnePending ==
  /\ Cardinality({c \in CallIds : Unresolved(c)}) <= 1
  /\ Len(moveCompleteCallbacks) <= 1
  /\ Cardinality({c \in CallIds : calls[c].timer}) <= 1

\* C2: of the resolution sources of a command only the first to fire has
\* effect on it: once an `ok` line, an `Error:` line or the timer has acted on
\* a pending call, no later line or timer resolves that call.
C2_OnlyFirstSourceActs ==
  [][ResolutionStep =>
       \A c \in CallIds : calls[c].left # "none" => calls'[c].outcome = Pending]_vars

\* the model stopped the run: an await continuation is due and the bound on
\* calls does not let it make its next sendCommand call
Truncated == MicrotaskPending /\ ~ENABLED (DeltaStep \/ ConnSteps)

\* call c was accepted while no other command was pending: every earlier
\* call was refused
IssuedNotBusy(c) == Unresolved(c) /\ \A d \in 1..(c - 1) : calls[d].port = 0

\* C3: every command issued while Connected and not Busy is eventually
\* resolved, armed timers being fired eventually.
C3_EveryCommandResolves ==
  \A c \in 1..MaxCalls : IssuedNotBusy(c) ~> (Settled(c) \/ Truncated)

\* C4: a sendCommand call made while Connected and while another command is
\* pending fails with Busy, writes nothing and leaves the slot as it was.
C4_SecondCallIsBusy ==
  [][(CallStep /\ isConnected /\ port # 0 /\ Busy) =>
       /\ calls'[Len(calls')].outcome = "Busy"
       /\ calls'[Len(calls')].port = 0
       /\ currentCommand' = currentCommand]_vars

\* C5: an `Error:` line that arrives while a command is pending cancels the
\* command's timer, clears the slot and fails the pending call with
\* DeviceReportedError carrying the trimmed text after the prefix.
C5_ErrorLineFailsPending ==
  [][\A raw \in RawLines :
       (ErrorLineStep(raw) /\ Waiting(slotCall)) =>
         /\ calls'[slotCall].outcome = DeviceReportedError(Trim(raw))
         /\ ~calls'[slotCall].timer
         /\ currentCommand' = Null]_vars

\* C6: an `ok` line that arrives while a command that waits for `ok` is
\* pending (issued and unresolved) cancels the command's timer, clears the
\* slot and resolves the pending call with success; afterwards no timer is
\* armed and no callback is registered.
C6_OkLineResolvesPending ==
  [][(OkLineStep /\ Unresolved(slotCall) /\ ~IsImmediate(currentCommand)) =>
       /\ calls'[slotCall].outcome = "success"
       /\ currentCommand' = Null
       /\ moveCompleteCallbacks' = <<>>
       /\ \A c \in CallIds : ~calls'[c].timer]_vars

\* C7: the timer armed by a call acts only if that call is still the pending
\* one, and then the call fails with Timeout; the timer of another call
\* leaves the slot, the callbacks and every other call as they were.
C7_TimerActsOnOwnCallOnly ==
  [][\A c \in CallIds :
       TimerFires(c) =>
         IF slotCall = c /\ Unresolved(c)
         THEN calls'[c].outcome = "Timeout" /\ currentCommand' = Null
         ELSE /\ currentCommand' = currentCommand
              /\ moveCompleteCallbacks' = moveCompleteCallbacks
              /\ \A d \in CallIds : calls'[d].outcome = calls[d].outcome]_vars

\* C8: an 'error' event of the transport while a command written to it is
\* pending fails that call with TransportError at once and cancels its timer.
C8_TransportErrorFailsPending ==
  [][\A p \in Ports :
       PortError(p) =>
         \A c \in CallIds :
           (Waiting(c) /\ calls[c].port = p) =>
             calls'[c].outcome = "TransportError" /\ ~calls'[c].timer]_vars

\* C9: an 'error' event of the transport leaves the state Disconnected, and
\* from the event on every sendCommand call fails with NotConnected, writes
\* nothing and leaves the correlator as it was, until a connect succeeds: a
\* connect called after the event opens its transport, the transport the
\* client writes to is opened, or a connect call returns success.
C9_ErrorDisconnectsUntilReconnect ==
  [][/\ \A p \in Ports : PortError(p) => ~isConnected'
     /\ (CallStep /\ errored > 0) =>
          /\ calls'[Len(calls')].outcome = "NotConnected"
          /\ calls'[Len(calls')].port = 0
          /\ UNCHANGED <<currentCommand, timeoutId, moveCompleteCallbacks>>]_vars

\* C10: disconnect called while Connected with a command pending cancels the
\* command's timer and fails the pending call with Disconnected.
C10_DisconnectFailsPending ==
  [][(Disconnect /\ isConnected) =>
       \A c \in CallIds :
         Waiting(c) => calls'[c].outcome = "Disconnected" /\ ~calls'[c].timer]_vars

\* a disconnect call closed its transport and no connect was called since:
\* only the close callback sets port to null, only connect sets it again
ClosedByDisconnect ==
  /\ port = 0
  /\ \E d \in 1..Len(disc) : disc[d].port # 0 /\ disc[d].outcome = "success"

\* C11: disconnect called while Disconnected succeeds and changes nothing, not
\* the transport either; the successful close of a disconnect called while
\* Connected closes the transport and leaves the state Disconnected, and a
\* sendCommand call made after it fails with NotConnected.
C11_DisconnectNoOpOrCloses ==
  [][/\ (Disconnect /\ ~isConnected) =>
          /\ disc'[Len(disc')].outcome = "success"
          /\ UNCHANGED <<isConnected, port, parser, currentCommand, timeoutId,
                         moveCompleteCallbacks, currentSpeed, calls, portSt,
                         listeners, conn>>
     /\ \A d \in 1..Len(disc) :
          (disc[d].outcome = Pending /\ disc'[d].outcome = "success") =>
            /\ portSt'[disc[d].port] = "closed"
            /\ ~isConnected'
     /\ (CallStep /\ ClosedByDisconnect) =>
          /\ calls'[Len(calls')].outcome = "NotConnected"
          /\ calls'[Len(calls')].port = 0]_vars

\* C11's case: the first call was written to port 1, disconnect closed that
\* port, no 'error' event and no other connect took place, and the second
\* call was refused
C11_Witness ==
  /\ ClosedByDisconnect
  /\ portSt[1] = "closed"
  /\ errored = 0
  /\ conn[2].st = "none"
  /\ Len(calls) = 2
  /\ calls[1].port = 1
  /\ calls[2].outcome = "NotConnected"

\* the sendCommand calls of the deltaMove call, in call order: G91, the
\* motion command, G90
DeltaCalls == {c \in CallIds : calls[c].owner = "delta"}
DeltaCall(i) ==
  CHOOSE c \in DeltaCalls : Cardinality({d \in DeltaCalls : d <= c}) = i

\* the G91 call of deltaMove succeeded and its motion call failed after it
\* was written: by its timer or by its write
MotionFailed ==
  /\ Cardinality(DeltaCalls) >= 2
  /\ calls[DeltaCall(1)].outcome = "success"
  /\ calls[DeltaCall(2)].outcome \in {"Timeout", "WriteError", "DeviceReportedError"}

\* the deltaMove call has returned
DeltaReturned == delta.pc = "done"

\* C12: when G91 succeeded and the motion command failed, deltaMove returns
\* only after G90 has been written to the transport.
C12_RestoreWrittenBeforeFailure ==
  (MotionFailed /\ DeltaReturned) =>
    /\ Cardinality(DeltaCalls) = 3
    /\ calls[DeltaCall(3)].cmd = "G90"
    /\ calls[DeltaCall(3)].port # 0

\* the G91 call of deltaMove failed
EnterFailed ==
  /\ Cardinality(DeltaCalls) >= 1
  /\ calls[DeltaCall(1)].outcome \notin {Pending, "success"}

\* C13: when the G91 command of deltaMove fails, no further command of the
\* move is issued to the transport: neither the motion command nor G90.
C13_EnterFailureSkipsRest ==
  EnterFailed => \A c \in DeltaCalls : c # DeltaCall(1) => calls[c].port = 0

\* the catch block of deltaMove was entered: G91 failed, or G91 succeeded and
\* the motion command failed
Compensated ==
  \/ EnterFailed
  \/ /\ Cardinality(DeltaCalls) >= 2
     /\ calls[DeltaCall(1)].outcome = "success"
     /\ calls[DeltaCall(2)].outcome \notin {Pending, "success"}

\* the failure that entered the catch block
OriginalFailure ==
  IF EnterFailed THEN calls[DeltaCall(1)].outcome ELSE calls[DeltaCall(2)].outcome

\* the G90 call of the catch block: the last call of the deltaMove
RestoreCall == DeltaCall(Cardinality(DeltaCalls))

\* C14: a deltaMove whose catch block was entered returns the original
\* failure, whatever the outcome of the G90 of the catch block.
C14_OriginalFailureReturned ==
  (DeltaReturned /\ Compensated) => delta.outcome = OriginalFailure

\* C14's case: the motion command failed, the G90 of the catch block failed
\* too, with another failure, and deltaMove has returned
C14_Witness ==
  /\ DeltaReturned
  /\ Compensated
  /\ ~EnterFailed
  /\ Cardinality(DeltaCalls) = 3
  /\ calls[RestoreCall].outcome \notin {Pending, "success", OriginalFailure}

\* the texts the motion command of the deltaMove call can have
MotionCommands == {MoveCommand(delta.v, delta.rapid, speed) : speed \in Speeds}

\* C15: the commands of a deltaMove are issued one after the other, each
\* only when the one before it has resolved, so that at most one of them is
\* pending; and a deltaMove that returned success wrote exactly three
\* commands: G91, the motion command and G90, in this order, all resolved.
C15_ThreeCommandsInSequence ==
  /\ \A c \in DeltaCalls : calls[c].outcome = Pending => c = RestoreCall
  /\ (DeltaReturned /\ delta.outcome = "success") =>
       /\ Cardinality(DeltaCalls) = 3
       /\ calls[DeltaCall(1)].cmd = "G91"
       /\ calls[DeltaCall(2)].cmd \in MotionCommands
       /\ calls[DeltaCall(3)].cmd = "G90"
       /\ \A c \in DeltaCalls : calls[c].port # 0 /\ calls[c].outcome = "success"

\* C15's case: a deltaMove has returned success
C15_Witness ==
  /\ DeltaReturned
  /\ delta.outcome = "success"
  /\ Cardinality(DeltaCalls) = 3

\* call c was written, its write callback has run and the timer it armed has
\* fired: without lines and without disconnect nothing else ends a timer
TimedOut(c) == calls[c].port # 0 /\ ~calls[c].wcb /\ ~calls[c].timer

\* C16: with a device that never sends a line, every command of a deltaMove
\* called while Connected fails with Timeout when its timer fires, and the
\* deltaMove returns the Timeout of its first command after G90 was written
\* and timed out as well.
C16_SilentDeviceTimesOut ==
  /\ \A c \in DeltaCalls :
       (TimedOut(c) /\ ~IsImmediate(calls[c].cmd)) => calls[c].outcome = "Timeout"
  /\ (DeltaReturned /\ calls[DeltaCall(1)].port # 0) =>
       /\ delta.outcome = "Timeout"
       /\ calls[RestoreCall].cmd = "G90"
       /\ calls[RestoreCall].port # 0
       /\ calls[RestoreCall].outcome = "Timeout"

\* this step is a connect call
ConnectCallStep == \E valid \in BOOLEAN : Connect(valid)

\* the connection state is Connecting: a connect call waits for its port to open
Connecting == \E p \in Ports : portSt[p] = "opening"

\* C17: a connect call made while the state is Connecting or Connected fails
\* with AlreadyConnected and leaves the transport, the connection state and
\* the pending command as they were.
C17_ConnectWhileConnectedFails ==
  [][(ConnectCallStep /\ (isConnected \/ Connecting)) =>
       /\ conn'[NextPort].outcome = "AlreadyConnected"
       /\ UNCHANGED <<isConnected, port, parser, portSt, currentCommand,
                      timeoutId, moveCompleteCallbacks>>]_vars

\* the write callback of call c armed a timeout timer for it: the write
\* succeeded and the command is one that waits for `ok`
TimerWasArmed(c) ==
  /\ calls[c].port # 0
  /\ ~calls[c].wcb
  /\ calls[c].outcome # "WriteError"
  /\ ~IsImmediate(calls[c].cmd)

\* C18: a connect call has reported success only if the 'open' event of its
\* port took place, its handshake command M115 was then issued and has
\* completed, and a timeout timer bounded the handshake.
C18_SuccessAfterBoundedHandshake ==
  \A p \in Ports :
    conn[p].outcome = "success" =>
      /\ portSt[p] \in {"open", "closed"}
      /\ conn[p].call \in CallIds
      /\ calls[conn[p].call].cmd = "M115"
      /\ calls[conn[p].call].outcome = "success"
      /\ TimerWasArmed(conn[p].call)

\* C19: a sendCommand call made while the state is not Connected fails with
\* NotConnected, writes nothing and leaves the slot, the timer and the
\* registered callbacks as they were.
C19_NotConnectedRefused ==
  [][(CallStep /\ ~isConnected) =>
       /\ calls'[Len(calls')].outcome = "NotConnected"
       /\ calls'[Len(calls')].port = 0
       /\ ~calls'[Len(calls')].wcb
       /\ \A c \in CallIds : calls'[c] = calls[c]
       /\ UNCHANGED <<currentCommand, timeoutId, moveCompleteCallbacks>>]_vars

\* C19's case: the first call is pending with its timer armed and owns the
\* slot, the state is not Connected, and the second call was refused
C19_Witness ==
  /\ ~isConnected
  /\ conn[2].st = "none"
  /\ Len(calls) = 2
  /\ calls[1].outcome = Pending
  /\ calls[1].timer
  /\ slotCall = 1
  /\ Registered(1)
  /\ calls[2].outcome = "NotConnected"

\* C20: an `Error:` line that arrives while no command is pending settles no
\* call and leaves the slot, the armed timers, the registered callbacks and
\* the connection state as they were.
C20_IdleErrorLineChangesNothing ==
  [][\A raw \in RawLines :
       (ErrorLineStep(raw) /\ ~Busy) =>
         /\ \A c \in CallIds : calls'[c] = calls[c]
         /\ currentCommand' = currentCommand
         /\ UNCHANGED <<moveCompleteCallbacks, isConnected, port, parser, portSt>>]_vars

\* this step is the data handler of a line that, trimmed, is neither `ok` nor
\* an `Error:` line
OtherLineStep(raw) ==
  /\ ~IsOk(Trim(raw))
  /\ ~IsError(Trim(raw))
  /\ \E p \in Ports : LineArrives(p, raw)

\* a line of port p reaches processResponse
Delivers(p) == portSt[p] = "open" /\ listeners[p] > 0 /\ ~MicrotaskPending

\* C21: a line that is neither `ok` nor an `Error:` line, as processResponse
\* receives it, leaves every call, the slot, the timers, the registered
\* callbacks and the connection state as they were, with or without a
\* pending command.
C21_OtherLineChangesNothing ==
  [][\A raw \in RawLines :
       OtherLineStep(raw) =>
         /\ \A c \in CallIds : calls'[c] = calls[c]
         /\ UNCHANGED <<currentCommand, slotCall, timeoutId, moveCompleteCallbacks,
                        isConnected, port, parser, portSt>>]_vars

\* C21's case: a command waits for `ok` with its timer armed on a port that
\* delivers lines; the handler of an informational line leaves exactly this
\* state, so the state after the line is the state before it
C21_Witness ==
  /\ \E raw \in RawLines : ~IsOk(Trim(raw)) /\ ~IsError(Trim(raw))
  /\ Waiting(slotCall)
  /\ calls[slotCall].timer
  /\ timeoutId = slotCall
  /\ Delivers(calls[slotCall].port)

\* this step belongs to connect (the call or the 'open' event of a port), to
\* disconnect (the call or its close callback) or is an 'error' event
ConnectionStep ==
  \/ ConnectCallStep
  \/ \E p \in Ports : PortOpen(p)
  \/ \E p \in Ports : PortError(p)
  \/ Disconnect
  \/ \E d \in 1..Len(disc), err \in BOOLEAN : CloseDone(d, err)

\* this step is a setSpeed call
SetSpeedStep == \E speed \in Speeds : SetSpeed(speed)

\* this step is a line handler
LineStep == \E p \in Ports, raw \in RawLines : LineArrives(p, raw)

\* C22: isConnected changes only in a step of connect, of disconnect or in an
\* 'error' event; a sendCommand call (direct, of a move, of a home operation
\* or of the handshake), a write callback, a line, a timer, a continuation of
\* deltaMove and setSpeed leave it as it was.
C22_OnlySessionStepsChangeConnection ==
  [][/\ (isConnected' # isConnected) => ConnectionStep
     /\ (CallStep \/ WriteStep \/ LineStep \/ TimerStep \/ DeltaStep \/ SetSpeedStep)
          => isConnected' = isConnected]_vars

\* C22's case: while Connected a setSpeed call was made, one command timed
\* out and another was completed by an `ok` line
C22_Witness ==
  /\ isConnected
  /\ speedSets > 0
  /\ \E c \in CallIds : calls[c].outcome = "Timeout"
  /\ \E c \in CallIds : calls[c].outcome = "success" /\ ~IsImmediate(calls[c].cmd)

\* this step fails call c with the failure of its write to the transport
WriteFails(c) == calls[c].outcome = Pending /\ calls'[c].outcome = "WriteError"

\* C23: a step that fails an operation with a transport failure, the failed
\* write of a command or the 'error' event that fails a connect call, leaves
\* the connection state Disconnected.
C23_TransportFailureDisconnects ==
  [][/\ \A c \in CallIds : WriteFails(c) => ~isConnected'
     /\ \A p \in Ports :
          (conn[p].outcome = Pending /\ conn'[p].outcome = "TransportError")
            => ~isConnected']_vars

\* the words of a command text: its parts between single spaces
RECURSIVE Words(_)
Words(s) ==
  IF \A i \in 1..Len(s) : SubSeq(s, i, i) # " " THEN <<s>>
  ELSE LET i == CHOOSE j \in 1..Len(s) :
                  SubSeq(s, j, j) = " " /\ \A k \in 1..(j - 1) : SubSeq(s, k, k) # " "
       IN  <<SubSeq(s, 1, i - 1)>> \o Words(SubSeq(s, i + 1, Len(s)))

\* the text is one line: it holds no line break
OneLine(s) == \A i \in 1..Len(s) : SubSeq(s, i, i) \notin {"\n", "\r"}

\* the word of axis a of move v: none when the axis was not given
AxisWord(v, a, letter) == IF a \in DOMAIN v THEN <<letter \o NumStr(v[a])>> ELSE <<>>

\* the words the command of a move is to have
MoveWords(v, rapid, speed) ==
  <<IF rapid THEN "G0" ELSE "G1">>
    \o AxisWord(v, "x", "X") \o AxisWord(v, "y", "Y") \o AxisWord(v, "z", "Z")
    \o (IF speed > 0 THEN <<"F" \o NatStr(speed)>> ELSE <<>>)

\* the command of the sendCommand call this step makes is the one of move v
BuildsMove(v, rapid) ==
  LET command == calls'[Len(calls')].cmd IN
    /\ OneLine(command)
    /\ Words(command) = MoveWords(v, rapid, currentSpeed)
    /\ (v = [x |-> D(125, -1), y |-> D(-3, 0)] /\ ~rapid /\ currentSpeed = 1000)
         => command = "G1 X12.5 Y-3 F1000"

\* the command text of every move at every speed
MoveTexts ==
  [v \in AllVectors, rapid \in BOOLEAN, speed \in AllSpeeds |-> MoveCommand(v, rapid, speed)]

\* this step is a sendCommand call made for the user
UserCallStep == CallStep /\ calls'[Len(calls')].owner = "user"

\* this step, a sendCommand call, is the one of absoluteMove(position, rapid)
IsAbsoluteMoveOf(position, rapid) ==
  calls'[Len(calls')].cmd = MoveTexts[position, rapid, currentSpeed]

\* this step is the sendCommand call of the motion command of deltaMove
DeltaMotionStep == DeltaStep /\ delta.pc = "g91" /\ delta'.pc = "move"

\* C24: the command absoluteMove and deltaMove build for a move is one line
\* of words separated by single spaces: G0 if rapid, else G1; then the X, Y
\* and Z words of the axes that were given and of no other, in this order;
\* then the F word with the current speed if and only if that speed is
\* greater than zero.  The move x=12.5, y=-3 at speed 1000 gives
\* `G1 X12.5 Y-3 F1000`.
C24_MoveCommandWords ==
  [][/\ UserCallStep =>
          \A position \in AllVectors, rapid \in BOOLEAN :
            IsAbsoluteMoveOf(position, rapid) => BuildsMove(position, rapid)
     /\ DeltaMotionStep => BuildsMove(delta.v, delta.rapid)]_vars

\* C24's case: the motion command of a deltaMove of x=12.5, y=-3, no z, at
\* speed 1000, was written to the port
C24_Witness ==
  /\ delta.v = [x |-> D(125, -1), y |-> D(-3, 0)]
  /\ \E c \in DeltaCalls : calls[c].cmd = "G1 X12.5 Y-3 F1000" /\ calls[c].port # 0

\* getSpeed()
GetSpeed == currentSpeed

\* the text is the command of a move
IsMoveText(command) == StartsWith(command, "G0") \/ StartsWith(command, "G1")

\* the speed words of a command text
SpeedWords(command) == SelectSeq(Words(command), LAMBDA w : StartsWith(w, "F"))

MoveCompletes ==
  \E c \in CallIds :
    /\ IsMoveText(calls[c].cmd)
    /\ calls[c].outcome = Pending
    /\ calls'[c].outcome = "success"

\* this step is a home operation of the panel
HomeStep == HandleSetHome \/ HandleGoHome

\* C26: the cached position changes only in a step that completes a move
\* command with success or in a home operation, which makes it the origin;
\* while the move is pending, failed or not issued it stays as it was.
C26_PositionFollowsCompletedMoves ==
  [][(panelPosition' # panelPosition) =>
       \/ MoveCompletes
       \/ HomeStep /\ panelPosition' = Origin]_vars

\* the numeric token of the word of command text with the given letter
Token(command, letter) ==
  LET ws == SelectSeq(Words(command), LAMBDA w : StartsWith(w, letter))
  IN  SubSeq(ws[1], 2, Len(ws[1]))

\* the device accepts the token and reads it as the number v
ReadsBack(token, v) == IsValidNumber(token) /\ Atof(token) = Normal(v)

\* every numeric token of the command this step writes to the port for
\* move v reads back
BuildsReadable(v) ==
  LET command == calls'[Len(calls')].cmd IN
    calls'[Len(calls')].port # 0 =>
    /\ "x" \in DOMAIN v => ReadsBack(Token(command, "X"), v.x)
    /\ "y" \in DOMAIN v => ReadsBack(Token(command, "Y"), v.y)
    /\ "z" \in DOMAIN v => ReadsBack(Token(command, "Z"), v.z)
    /\ currentSpeed > 0 => ReadsBack(Token(command, "F"), D(currentSpeed, 0))

\* C27: every numeric token of the command absoluteMove and deltaMove build,
\* of an axis or of the speed, is accepted by the device's isValidNumber
\* (optional sign, digits, at most one decimal point, at least one digit)
\* and is read by the device as the number it was built from.
C27_NumericTokensReadBack ==
  [][/\ UserCallStep =>
          \A position \in AllVectors, rapid \in BOOLEAN :
            IsAbsoluteMoveOf(position, rapid) => BuildsReadable(position)
     /\ DeltaMotionStep => BuildsReadable(delta.v)]_vars

\* the command is a status query, which resolves on its write
ResolvesOnWrite(command) == command = "M115" \/ StartsWith(command, "M114")

\* C28: the write callback of a successful write resolves a command that is
\* exactly `M115` or starts with `M114` with success, arms no timer and
\* registers no callback for it; every other command is resolved with
\* success by the step of an `ok` line only.
C28_ImmediateCommandsResolveOnWrite ==
  [][\A c \in CallIds :
       /\ (WriteDone(c, FALSE) /\ ResolvesOnWrite(calls[c].cmd)) =>
            /\ calls'[c].outcome = "success"
            /\ ~calls'[c].timer
            /\ UNCHANGED <<timeoutId, moveCompleteCallbacks>>
       /\ (~ResolvesOnWrite(calls[c].cmd)
             /\ calls[c].outcome = Pending /\ calls'[c].outcome = "success") => OkLineStep]_vars

\* C28's case: an M114 call was resolved by its write while the call before
\* it was still waiting for `ok`, which resolved it afterwards
C28_Witness ==
  /\ Len(calls) >= 2
  /\ ~ResolvesOnWrite(calls[1].cmd)
  /\ calls[1].outcome = "success"
  /\ calls[2].cmd = "M114"
  /\ calls[2].outcome = "success"
  /\ calls[1].left = "none"

\* nothing of a command is left: no current command, no armed timer, no
\* registered callback
NothingLeft ==
  /\ currentCommand = Null
  /\ moveCompleteCallbacks = <<>>
  /\ timeoutId = 0
  /\ \A c \in CallIds : ~calls[c].timer

\* call c was written in a session that disconnect has ended
OfEndedSession(c) == calls[c].port # 0 /\ portSt[calls[c].port] = "closed"

\* this step, a line of port p, settles a call of an ended session, written
\* to another port
LineSettlesOtherSession ==
  \E p \in Ports, raw \in RawLines, c \in CallIds :
    /\ LineArrives(p, raw)
    /\ OfEndedSession(c)
    /\ calls[c].port # p
    /\ calls[c].outcome = Pending
    /\ calls'[c].outcome # Pending

\* this step, the timer of call c of an ended session, clears the slot of a
\* command written to another port
TimerClearsOtherSession ==
  \E c \in CallIds :
    /\ TimerFires(c)
    /\ OfEndedSession(c)
    /\ StillPending(c)
    /\ slotCall # 0
    /\ calls[slotCall].port # calls[c].port

\* C29: once disconnect has closed the transport, no current command, timer
\* or callback is left; no timer clears the slot of a command of another
\* session, and no line settles a command of another session.
C29_NothingSurvivesTheSession ==
  [][/\ ClosedByDisconnect' => NothingLeft'
     /\ ~LineSettlesOtherSession
     /\ ~TimerClearsOtherSession]_vars

\* the transports that are open and deliver lines to processResponse
OpenPorts == {p \in Ports : portSt[p] = "open"}

\* C30: at most one transport of the client is open at any time, and once
\* disconnect has closed the transport, and until the next connect, none of
\* the transports the client opened is open.
C30_AtMostOneOpenTransport ==
  /\ Cardinality(OpenPorts) <= 1
  /\ ClosedByDisconnect => OpenPorts = {}

\* the `ok` line the device sends in this step at port p answers call c
OkAnswersCall(p, c) ==
  /\ DeviceAnswers(p, "ok")
  /\ Received(p)[answered[p] + 1] = c

\* this step resolves call c, pending until now, with success
ResolvesCall(c) ==
  /\ calls[c].outcome = Pending
  /\ calls'[c].outcome = "success"

\* C31: with a device that answers every command in order, an `ok` line
\* resolves with success only the command it answers; the `ok` that answers
\* the M115 of the handshake resolves no later command.
C31_OkResolvesItsOwnCommand ==
  [][\A p \in Ports :
       DeviceAnswers(p, "ok") =>
         \A c \in CallIds : ResolvesCall(c) => OkAnswersCall(p, c)]_vars

\* an `Error:` line arrived while call c was pending, its command written
\* and its callback registered, and left it pending
ErrorReported(c) == calls[c].left = "error" /\ Registered(c)

\* C32: a command for which an `Error:` line arrived while it was pending is
\* never resolved with success afterwards.
C32_NoSuccessAfterError ==
  [][\A c \in CallIds : ErrorReported(c) => calls'[c].outcome # "success"]_vars

\* no write callback is outstanding: every command issued has been handed
\* to the port and its write callback has run
NoWriteInFlight == \A c \in CallIds : ~calls[c].wcb

\* C33: whenever no write is in flight, a callback is registered if and only
\* if a current command is recorded, a timer is armed only while a current
\* command is recorded, and a call that has returned neither owns the
\* current-command field nor has a callback registered.
C33_CorrelatorStateConsistent ==
  NoWriteInFlight =>
    /\ (moveCompleteCallbacks # <<>>) <=> (currentCommand # Null)
    /\ (\E c \in CallIds : calls[c].timer) => currentCommand # Null
    /\ \A c \in CallIds :
         calls[c].outcome # Pending => (slotCall # c /\ ~Registered(c))

\* this step is the write callback of call c, run with an error
WriteFailureStep(c) == calls[c].wcb /\ WriteDone(c, TRUE)

\* the step leaves the pending state of call b as it was: its record and
\* timer, its registration, and the current-command field when b set it
Undisturbed(b) ==
  /\ calls'[b] = calls[b]
  /\ Registered(b)' = Registered(b)
  /\ slotCall = b => (slotCall' = b /\ currentCommand' = currentCommand)

\* C34: the write callback run with an error fails its call with the write
\* error, arms no timer and registers no callback for it, clears the
\* current-command field, and disturbs no other pending command.
C34_WriteFailureIsLocal ==
  [][\A c \in CallIds :
       WriteFailureStep(c) =>
         /\ calls'[c].outcome = "WriteError"
         /\ ~calls'[c].timer
         /\ ~Registered(c)'
         /\ slotCall = c => currentCommand' = Null
         /\ \A b \in CallIds \ {c} : calls[b].outcome = Pending => Undisturbed(b)]_vars

\* this step is the close callback of disconnect call d, run with an error
CloseFailureStep(d) == disc[d].outcome = Pending /\ CloseDone(d, TRUE)

\* call c is the only command issued so far, it waits for its resolution,
\* and no line has acted on it: nothing but disconnect can have cleared
\* the timer it armed
OnlyDisconnectTouched(c) ==
  /\ Watched(c)
  /\ Len(calls) = 1
  /\ Waiting(c)
  /\ calls[c].left = "none"

\* C35: when the close of the transport fails, disconnect fails with the
\* close error, the connection state stays as it was, and a command that
\* was pending still has its timer armed.
C35_FailedCloseKeepsPendingTimer ==
  [][\A d \in 1..Len(disc) :
       CloseFailureStep(d) =>
         /\ disc'[d].outcome = "CloseError"
         /\ isConnected' = isConnected
         /\ \A c \in CallIds : OnlyDisconnectTouched(c) => calls'[c].timer]_vars

\* something is left that can return connect call p: the 'open' or 'error'
\* event of its port, its startup timer, or the continuation of its handshake
CanStillReturn(p) ==
  \/ portSt[p] \in {"opening", "open"}
  \/ conn[p].st \in {"opening", "delay", "handshake"}

\* C36: a connect call that has not returned can still return, whatever the
\* order of the port's events, of disconnect and of the startup delay.
C36_ConnectAlwaysReturns ==
  [][\A p \in Ports : conn'[p].outcome = Pending => CanStillReturn(p)']_vars

\* the sendCommand('G90') calls deltaMove has made
RestoreCalls == {c \in CallIds : calls[c].owner = "delta" /\ calls[c].cmd = "G90"}

\* C37: one deltaMove call issues G90 at most once, whichever step fails.
C37_RestoreIssuedAtMostOnce == Cardinality(RestoreCalls) <= 1

\* G91 and the move succeeded, the G90 of the success path failed, and
\* deltaMove has returned with that failure
C37_Witness ==
  /\ delta.pc = "done"
  /\ Len(calls) = 3
  /\ calls[1].cmd = "G91" /\ calls[1].outcome = "success"
  /\ calls[2].outcome = "success"
  /\ calls[3].cmd = "G90" /\ calls[3].outcome \notin {"success", Pending}
  /\ delta.outcome = calls[3].outcome

\* the kinds of line the command parser prints
IsAckLine(l) == StartsWith(l, "ACK ")
IsDoneLine(l) == StartsWith(l, "DONE ")
IsErrorLine(l) == StartsWith(l, "ERROR:")

\* no ACK and no DONE line is printed from place a to place b of out
NoFrameLine(a, b) == \A k \in a..b : ~IsAckLine(out[k]) /\ ~IsDoneLine(out[k])

\* line i of out lies after the ACK line of a command and before the DONE
\* line of the same command, with no other ACK or DONE line in between
Bracketed(i) ==
  \E j \in 1..(i - 1), m \in (i + 1)..Len(out) :
    /\ IsAckLine(out[j])
    /\ StartsWith(out[m], "DONE " \o SubSeq(out[j], 5, Len(out[j])))
    /\ NoFrameLine(j + 1, m - 1)

\* C38: every `ERROR:` line the command parser prints lies between the
\* `ACK` line and the `DONE` line of the command it belongs to.
C38_ErrorsBetweenAckAndDone ==
  \A i \in 1..Len(out) : IsErrorLine(out[i]) => Bracketed(i)

\* the line is longer than cmdBuffer holds
TooLong(line) == Len(line) > BUFFER_SIZE - 1

\* the texts of the lines of q that fit cmdBuffer, as read hands them to
\* processCommand
RECURSIVE Accepted(_)
Accepted(q) ==
  IF q = <<>> THEN <<>>
  ELSE (IF TooLong(Head(q)) THEN <<>> ELSE <<convertToUppercase(trim(Head(q)))>>)
         \o Accepted(Tail(q))

\* sequence a is the beginning of sequence b
IsPrefix(a, b) == Len(a) <= Len(b) /\ SubSeq(b, 1, Len(a)) = a

\* the `Command too long` errors printed so far
TooLongErrors == {i \in 1..Len(out) : out[i] = "ERROR: Command too long"}

\* C39: cmdIndex stays within 0..BUFFER_SIZE-1; once every byte sent has been
\* read, each line longer than 63 characters has been rejected with `Command
\* too long`; and processCommand has run on nothing but the lines that fit,
\* in the order sent, however the bytes were split over the read calls.
C39_OverlongLineNeverProcessed ==
  /\ cmdIndex \in 0..(BUFFER_SIZE - 1)
  /\ wire = "" =>
       Cardinality(TooLongErrors) = Cardinality({j \in 1..Len(sent) : TooLong(sent[j])})
  /\ IsPrefix(processed, Accepted(sent))
====
